---- MODULE Spec2Model ----
(***************************************************************************)
(* Model of the device connection engine of daftfox/rev:                   *)
(*   - BoardService.connectToBoard (src/src/service/board-service.ts)      *)
(*   - Board (src/src/domain/board.ts and its earlier revision             *)
(*     src/unnamed/part_000)                                               *)
(* One link is modelled: one call of connectToBoard, the FirmataBoard      *)
(* event emitter it creates, every Board object constructed for it, the    *)
(* host timers of the service and of the boards, and the device on the     *)
(* other end of the link.                                                  *)
(* Time passes in periods of the blink interval (500 ms), the shortest     *)
(* timer of the program.  A pending timer holds the time left until it     *)
(* fires, and time does not advance past a timer that is due.              *)
(***************************************************************************)
EXTENDS Integers, Sequences, FiniteSets, TLC

VARIABLES
    rev,                \* the revision of domain/board that is built
    firmware,           \* firmataBoard.firmware.name, the name of the
                        \* sketch the device runs, as its characters
    call,               \* the last call of a LedController's executeAction:
                        \* << action, parameters >>, << >> if none yet
    reading,            \* the last value the device reported of each
                        \* analog pin: <<value>>, or << >> if none yet
    elapsed,            \* the time connectToBoard has waited for 'ready'
                        \* in vain
    boards,             \* every Board constructed for the link, in order
    board,              \* connectToBoard's `let board`: 0 is undefined/null
    connectionTimeout,  \* connectToBoard's timer: <<time left>> if pending
    svcListeners,       \* the service's four listeners are on firmataBoard
    onceFirmware,       \* boards with a once('queryfirmware') listener
    identified,         \* the device has sent its first firmware report
    ready,              \* firmata has emitted 'ready': pins are known
    linkEvents,         \* link events delivered so far ('disconnect','close')
    queries,            \* the ages of the unanswered heartbeat queries
                        \* the device will answer
    late,               \* some heartbeat query went unanswered for 2 s,
                        \* or will never be answered
    roster,             \* boards passed to addBoard, not yet to removeBoard
    connected,          \* arguments of boardConnectedCallback, in order
    released,           \* boards their caller has torn down and dropped
    disconnected,       \* number of calls of boardDisconnectedCallback
    pinValue,           \* firmataBoard.pins[i].value of the digital pins
    thrown,             \* the error the last step's executeAction threw
    out,                \* what the last step's executeAction wrote
    emitted             \* what the last step's executeAction emitted

vars == << rev, firmware, call, reading, elapsed, boards, board, connectionTimeout, svcListeners,
           onceFirmware, identified, ready, linkEvents, queries, late,
           roster, connected, released, disconnected, pinValue, thrown, out,
           emitted >>

(***************************************************************************)
(* Bounds of the model                                                     *)
(***************************************************************************)
MaxBoards == 2
MaxQueries == 2

(***************************************************************************)
(* Program constants                                                       *)
(***************************************************************************)
BOARD_TS == "src/src/domain/board.ts"
PART_000 == "src/unnamed/part_000"
Revisions == {BOARD_TS, PART_000}

BLINK_MS == 500
CONNECTION_TIMEOUT_MS == 10000
HEARTBEAT_INTERVAL_NEW_MS == 5000
HEARTBEAT_INTERVAL_OLD_MS == 3000
HEARTBEAT_TIMEOUT_NEW_MS == 3000
HEARTBEAT_TIMEOUT_OLD_MS == 2000
LED == 2
HIGH == 1
LOW == 0

Ticks(ms) == ms \div BLINK_MS

heartbeatInterval(r) ==
    IF r = BOARD_TS THEN Ticks(HEARTBEAT_INTERVAL_NEW_MS)
               ELSE Ticks(HEARTBEAT_INTERVAL_OLD_MS)

\* a faulty deadline, which outlasts the heartbeat interval
heartbeatDeadlineOutlasts(r) == heartbeatInterval(r) + 1

heartbeatDeadline(r) ==
    IF r = BOARD_TS THEN Ticks(HEARTBEAT_TIMEOUT_NEW_MS)
               ELSE Ticks(HEARTBEAT_TIMEOUT_OLD_MS)

IDLE(r) == IF r = BOARD_TS THEN "idle" ELSE "IDLE"

(***************************************************************************)
(* The device: its pins as capability discovery reports them.  Pin 0 has   *)
(* no supported mode, pin 1 is analog, pins 2 (the builtin LED) and 3 are  *)
(* digital.                                                                *)
(***************************************************************************)
Pins == 0 .. 3
AnalogPins == {1}
DigitalPins == {2, 3}

isAnalogPin(pin) == pin \in AnalogPins
isDigitalPin(pin) == pin \in DigitalPins

(***************************************************************************)
(* JavaScript values.  A number is <<n>>, NaN is <<>>.  A timer that is    *)
(* pending is <<time left>>, one that is not is <<>>.                      *)
(***************************************************************************)
NaN == << >>
Off == << >>
Truthy(x) == x \notin {"undefined", "null"}

(***************************************************************************)
(* Strings are sequences of characters; parseInt( s, 10 ) reads the        *)
(* longest prefix of decimal digits, after a "-" if there is one, and is   *)
(* NaN when there is none.                                                 *)
(***************************************************************************)
Digits == {"0", "1", "2", "3", "4", "5", "6", "7", "8", "9"}

DigitValue(c) ==
    CASE c = "0" -> 0 [] c = "1" -> 1 [] c = "2" -> 2 [] c = "3" -> 3
      [] c = "4" -> 4 [] c = "5" -> 5 [] c = "6" -> 6 [] c = "7" -> 7
      [] c = "8" -> 8 [] c = "9" -> 9

RECURSIVE DigitPrefix(_)
DigitPrefix(s) ==
    IF s = << >> \/ Head(s) \notin Digits THEN << >>
    ELSE << Head(s) >> \o DigitPrefix(Tail(s))

RECURSIVE Decimal(_)
Decimal(ds) ==
    IF ds = << >> THEN 0
    ELSE 10 * Decimal(SubSeq(ds, 1, Len(ds) - 1)) + DigitValue(ds[Len(ds)])

parseInt(s) ==
    IF s # << >> /\ Head(s) = "-"
    THEN IF DigitPrefix(Tail(s)) = << >> THEN NaN
         ELSE << 0 - Decimal(DigitPrefix(Tail(s))) >>
    ELSE IF DigitPrefix(s) = << >> THEN NaN ELSE << Decimal(DigitPrefix(s)) >>

\* the index of the first occurrence of pattern in s, 0 if there is none
Find(s, pattern) ==
    LET at == { i \in 1 .. (Len(s) - Len(pattern) + 1) :
                    SubSeq(s, i, i + Len(pattern) - 1) = pattern }
    IN  IF at = {} THEN 0 ELSE CHOOSE i \in at : \A j \in at : i <= j

\* s.replace( pattern, replacement ) with a string pattern: the first
\* occurrence is replaced
replace(s, pattern, replacement) ==
    IF Find(s, pattern) = 0 THEN s
    ELSE SubSeq(s, 1, Find(s, pattern) - 1) \o replacement
             \o SubSeq(s, Find(s, pattern) + Len(pattern), Len(s))

\* String( array ): the elements joined by ","
RECURSIVE ArrayToString(_)
ArrayToString(a) ==
    IF a = << >> THEN << >>
    ELSE IF Len(a) = 1 THEN a[1]
    ELSE a[1] \o << "," >> \o ArrayToString(Tail(a))

\* String( undefined )
UndefinedString == << "u", "n", "d", "e", "f", "i", "n", "e", "d" >>

\* the i-th positional argument of a call made with the arguments args
Argument(args, i) == IF i <= Len(args) THEN args[i] ELSE UndefinedString

(***************************************************************************)
(* Board: the timer lists.  A handle is named by the timer it was given    *)
(* for: "heartbeat" and "blink" are intervals, "deadline" is the           *)
(* heartbeat timeout.  Each board has at most one timer of each name       *)
(* pending at a time.                                                      *)
(***************************************************************************)
\* the longest time a board's age is counted to
AgeCap == Ticks(HEARTBEAT_INTERVAL_NEW_MS + HEARTBEAT_TIMEOUT_NEW_MS) + 1

IndexOf(list, x) ==
    IF \E i \in 1 .. Len(list) : list[i] = x
    THEN CHOOSE i \in 1 .. Len(list) :
             list[i] = x /\ \A j \in 1 .. (i - 1) : list[j] # x
    ELSE 0

RemoveAt(list, i) == SubSeq(list, 1, i - 1) \o SubSeq(list, i + 1, Len(list))

\* list.splice( list.indexOf( x ), 1 ): indexOf is -1 when x is not in the
\* list, and splice( -1, 1 ) removes the last element
SpliceIndexOf(list, x) ==
    IF IndexOf(list, x) # 0 THEN RemoveAt(list, IndexOf(list, x))
    ELSE IF list = << >> THEN list
    ELSE RemoveAt(list, Len(list))

\* the host's clearInterval / clearTimeout of handle h of board bd
\* (the age of a board is counted until a timer of its heartbeat is cleared)
Cancel(bd, h) ==
    [bd EXCEPT !.heartbeatDue = IF h = "heartbeat" THEN Off ELSE @,
               !.blinkDue = IF h = "blink" THEN Off ELSE @,
               !.deadlineDue = IF h = "deadline" THEN Off ELSE @,
               !.age = IF h \in {"heartbeat", "deadline"} THEN AgeCap ELSE @]

\* a faulty clearInterval, which leaves the handle in the list
clearIntervalNoSplice(bd, interval) == Cancel(bd, interval)

clearInterval(bd, interval) ==
    Cancel([bd EXCEPT !.intervals = SpliceIndexOf(@, interval)], interval)

\* a faulty clearTimeout, which leaves the handle in the list
clearTimeoutNoSplice(bd, timeout) == Cancel(bd, timeout)

clearTimeout(bd, timeout) ==
    Cancel([bd EXCEPT !.timeouts = SpliceIndexOf(@, timeout)], timeout)

RECURSIVE CancelAll(_, _)
CancelAll(bd, list) ==
    IF list = << >> THEN bd ELSE CancelAll(Cancel(bd, Head(list)), Tail(list))

clearAllIntervals(bd) == [CancelAll(bd, bd.intervals) EXCEPT !.intervals = << >>]

clearAllTimeouts(bd) == [CancelAll(bd, bd.timeouts) EXCEPT !.timeouts = << >>]

\* a faulty reset, which leaves the deadline pending
resetHeartbeatTimeoutNoClear(bd, r) == bd

\* board.ts: resetHeartbeatTimeout; part_000: the queryFirmware callback and
\* the last statement of the deadline callback, which clear the timeout
\* the heartbeat tick created
resetHeartbeatTimeout(bd, r) ==
    IF r = BOARD_TS
    THEN [clearTimeout(bd, bd.heartbeatTimeout) EXCEPT !.heartbeatTimeout = "null"]
    ELSE clearTimeout(bd, "deadline")

\* a faulty enableBlinkLed, which starts an interval on every call
enableBlinkLedNoGuard(bd, enable, r) ==
    IF enable
    THEN [bd EXCEPT !.currentProgram = IF r = BOARD_TS THEN @ ELSE "BLINKON",
                    !.blinkInterval = "blink",
                    !.blinkDue = << Ticks(BLINK_MS) >>,
                    !.intervals = Append(@, "blink")]
    ELSE [clearInterval([bd EXCEPT !.currentProgram = IDLE(r)], bd.blinkInterval)
              EXCEPT !.blinkInterval = "null"]

enableBlinkLed(bd, enable, r) ==
    IF enable
    THEN IF Truthy(bd.blinkInterval) THEN bd
         ELSE [bd EXCEPT !.currentProgram = IF r = BOARD_TS THEN @ ELSE "BLINKON",
                         !.blinkInterval = "blink",
                         !.blinkDue = << Ticks(BLINK_MS) >>,
                         !.intervals = Append(@, "blink")]
    ELSE [clearInterval([bd EXCEPT !.currentProgram = IDLE(r)], bd.blinkInterval)
              EXCEPT !.blinkInterval = "null"]

\* the Board a constructor call leaves behind; pinsKnown: the firmataBoard
\* has its pins (capability discovery is over); first: it is the first
\* Board of the link.  age and expiredAt observe the heartbeat of the
\* first Board: the time since construction, counted until a timer of the
\* heartbeat is cleared, and the age at which its deadline fired
NewBoard(r, pinsKnown, first) ==
    [ online |-> (r = BOARD_TS),
      currentProgram |-> IDLE(r),
      intervals |-> << "heartbeat" >>,
      timeouts |-> << >>,
      blinkInterval |-> "undefined",
      heartbeatTimeout |-> "undefined",
      heartbeatDue |-> << heartbeatInterval(r) >>,
      deadlineDue |-> Off,
      blinkDue |-> Off,
      pinListeners |-> IF pinsKnown THEN AnalogPins \cup DigitalPins ELSE {},
      previousAnalogValue |-> [p \in AnalogPins |-> << >>],
      type |-> "Board",
      age |-> IF first THEN 0 ELSE AgeCap,
      expiredAt |-> << >> ]

(***************************************************************************)
(* BoardService: the class connectToBoard constructs for a firmware name   *)
(***************************************************************************)
DotIno == << ".", "i", "n", "o" >>

MajorTomName == << "M", "a", "j", "o", "r", "T", "o", "m" >>

LedControllerName ==
    << "L", "e", "d", "C", "o", "n", "t", "r", "o", "l", "l", "e", "r" >>

StandardFirmataName ==
    << "S", "t", "a", "n", "d", "a", "r", "d", "F", "i", "r", "m", "a", "t", "a" >>

\* the name of the class the 'queryfirmware' listener constructs
BoardClass(name) ==
    LET type == replace(name, DotIno, << >>)
    IN  IF type = MajorTomName THEN "MajorTom" ELSE "Board"

(***************************************************************************)
(* Board: actions                                                          *)
(***************************************************************************)
Actions == {"BLINKON", "BLINKOFF", "TOGGLELED", "SETPINVALUE"}

getAvailableActions == Actions

isAvailableAction(action) == action \in getAvailableActions

\* the strings the action's method receives as its positional arguments:
\* board.ts spreads the parameters, part_000 passes the array as the one
\* argument (a string once parseInt reads it)
MethodArguments(r, parameters) ==
    IF r = BOARD_TS THEN parameters ELSE << ArrayToString(parameters) >>

\* setPinValue( pin, value ): board.ts throws CommandMalformed when pin or
\* value is null (parseInt gives a number or NaN, never null); part_000
\* has no such test
setPinValueMalformed(r, pin, value) ==
    r = BOARD_TS /\ ("null" \in {pin, value})

\* setPinValue( pin, value ): "TypeError" when firmataBoard.pins[ pin ] is
\* undefined, else the digitalWrite or analogWrite it makes, if any
setPinValueThrows(pin) == pin = NaN \/ pin[1] \notin Pins

setPinValueWrites(pin, value) ==
    IF isAnalogPin(pin[1])
    THEN << << "analogWrite", pin, value >> >>
    ELSE IF isDigitalPin(pin[1]) /\ value \in { << HIGH >>, << LOW >> }
    THEN << << "digitalWrite", pin, value >> >>
    ELSE << >>

\* firmata's digitalWrite stores the value written (the value of an analog
\* pin is read by no code of the model and is not kept)
AfterWrites(pv, writes) ==
    IF writes = << >> \/ writes[1][1] # "digitalWrite" THEN pv
    ELSE [pv EXCEPT ![writes[1][2][1]] = writes[1][3]]

toggleLEDValue(pv) == IF pv[LED] = << HIGH >> THEN << LOW >> ELSE << HIGH >>

\* the call the action's method makes: << method, arguments... >>
MethodCall(action, args, pv) ==
    CASE action = "BLINKON" -> << "enableBlinkLed", TRUE >>
      [] action = "BLINKOFF" -> << "enableBlinkLed", FALSE >>
      [] action = "TOGGLELED" -> << "setPinValue", << LED >>, toggleLEDValue(pv) >>
      [] action = "SETPINVALUE" ->
             << "setPinValue", parseInt(Argument(args, 1)),
                parseInt(Argument(args, 2)) >>

(***************************************************************************)
(* The state machine                                                       *)
(***************************************************************************)
\* the parameter arrays the callers of executeAction pass
S(c) == << c >>
ParameterChoices(action) ==
    IF action = "SETPINVALUE"
    THEN { << S("2"), S("1") >>, << S("2"), S("0") >>, << S("2"), S("2") >>,
           << S("1"), S("0") >>,
           << S("9"), S("1") >>, << S("2") >>, << >>,
           << S("x"), S("1") >>, << S("2"), S("x") >> }
    ELSE { << >> }

UnknownActions == {"SETCOLOR"}

InitLink ==
    /\ rev \in Revisions
    /\ call = << >>
    /\ reading = [p \in AnalogPins |-> << >>]
    /\ elapsed = 0
    /\ boards = << >>
    /\ board = 0
    /\ connectionTimeout = << Ticks(CONNECTION_TIMEOUT_MS) >>
    /\ svcListeners = TRUE
    /\ onceFirmware = {}
    /\ identified = FALSE
    /\ ready = FALSE
    /\ linkEvents = {}
    /\ queries = << >>
    /\ late = FALSE
    /\ roster = {}
    /\ connected = << >>
    /\ released = {}
    /\ disconnected = 0
    /\ pinValue = [p \in DigitalPins |-> << LOW >>]
    /\ thrown = ""
    /\ out = << >>
    /\ emitted = << >>

\* a link to a device that runs a sketch without a tailor made class
Init == InitLink /\ firmware = StandardFirmataName \o DotIno

\* the transport is open
linkOpen == linkEvents = {}

Silent == /\ thrown' = ""
          /\ out' = << >>
          /\ emitted' = << >>

\* firmataBoard.removeAllListeners(): the listeners of every board and of
\* the service go
WithoutListeners(bs) == [i \in DOMAIN bs |-> [bs[i] EXCEPT !.pinListeners = {}]]

\* firmataBoard emits 'queryfirmware': connectToBoard's listener constructs
\* a Board, then the once-listeners of the heartbeats run
QueryFirmwareEvent ==
    /\ svcListeners => Len(boards) < MaxBoards
    /\ LET constructed == IF svcListeners
                          THEN Append(boards,
                                   [NewBoard(rev, ready, boards = << >>)
                                        EXCEPT !.type = BoardClass(firmware)])
                          ELSE boards
       IN  boards' = [i \in DOMAIN constructed |->
                         IF i \in onceFirmware
                         THEN resetHeartbeatTimeout(constructed[i], rev)
                         ELSE constructed[i]]
    /\ board' = IF svcListeners THEN Len(boards) + 1 ELSE board
    /\ onceFirmware' = {}
    /\ Silent

\* the device's first firmware report arrives
IdentificationReply ==
    /\ linkOpen /\ ~identified
    /\ identified' = TRUE
    /\ QueryFirmwareEvent
    /\ UNCHANGED << rev, firmware, call, reading, elapsed, connectionTimeout, svcListeners, ready,
                    linkEvents, queries, late, roster, connected, released,
                    disconnected, pinValue >>

\* the device's reply to the oldest unanswered heartbeat query arrives
HeartbeatReply ==
    /\ linkOpen /\ queries # << >>
    /\ queries' = Tail(queries)
    /\ QueryFirmwareEvent
    /\ UNCHANGED << rev, firmware, call, reading, elapsed, connectionTimeout, svcListeners, identified,
                    ready, linkEvents, late, roster, connected, released,
                    disconnected, pinValue >>

\* a faulty 'ready' listener, which leaves connectionTimeout pending
ReadyKeepsTimeout ==
    /\ linkOpen /\ identified /\ ~ready
    /\ ready' = TRUE
    /\ IF svcListeners
       THEN /\ roster' = roster \cup {board}
            /\ connected' = Append(connected, board)
            /\ elapsed' = 0
       ELSE UNCHANGED << roster, connected, elapsed >>
    /\ thrown' = "" /\ out' = << >> /\ emitted' = << >>
    /\ UNCHANGED << rev, firmware, call, reading, boards, board, svcListeners,
                    onceFirmware, identified, linkEvents, queries, late,
                    released, disconnected, pinValue, connectionTimeout >>

\* capability discovery is over and firmata emits 'ready'
Ready ==
    /\ linkOpen /\ identified /\ ~ready
    /\ ready' = TRUE
    /\ IF svcListeners
       THEN /\ roster' = roster \cup {board}
            /\ connected' = Append(connected, board)
            /\ connectionTimeout' = Off
            /\ elapsed' = 0
       ELSE UNCHANGED << roster, connected, connectionTimeout, elapsed >>
    /\ Silent
    /\ UNCHANGED << rev, firmware, call, reading, boards, board, svcListeners, onceFirmware,
                    identified, linkEvents, queries, late, released,
                    disconnected, pinValue >>

\* a faulty timeout, which leaves the listeners on firmataBoard
ConnectionTimeoutKeepsListeners ==
    /\ connectionTimeout = << 0 >>
    /\ connectionTimeout' = Off
    /\ board' = 0
    /\ connected' = Append(connected, 0)
    /\ thrown' = "" /\ out' = << >> /\ emitted' = << >>
    /\ UNCHANGED << rev, firmware, call, reading, elapsed, boards, svcListeners, onceFirmware,
                    identified, ready, linkEvents, queries, late, roster,
                    released, disconnected, pinValue >>

\* connectToBoard's 10 s timer fires
ConnectionTimeout ==
    /\ connectionTimeout = << 0 >>
    /\ connectionTimeout' = Off
    /\ board' = 0
    /\ svcListeners' = FALSE
    /\ onceFirmware' = {}
    /\ boards' = WithoutListeners(boards)
    /\ connected' = Append(connected, 0)
    /\ Silent
    /\ UNCHANGED << rev, firmware, call, reading, elapsed, identified, ready, linkEvents,
                    queries, late, roster, released, disconnected, pinValue >>

\* connectToBoard's listener of 'disconnect' and of 'close'
DisconnectListener ==
    IF svcListeners
    THEN /\ roster' = roster \ {board}
         /\ disconnected' = disconnected + 1
    ELSE UNCHANGED << roster, disconnected >>

\* the link dies: firmataBoard emits e, 'disconnect' or 'close'
LinkEvent(e) ==
    /\ e \notin linkEvents
    /\ linkEvents' = linkEvents \cup {e}
    /\ DisconnectListener
    /\ Silent
    /\ UNCHANGED << rev, firmware, call, reading, elapsed, boards, board, connectionTimeout,
                    svcListeners, onceFirmware, identified, ready, queries,
                    late, connected, released, pinValue >>

\* the heartbeat interval of board b fires
HeartbeatTick(b) ==
    /\ boards[b].heartbeatDue = << 0 >>
    /\ boards' = [boards EXCEPT ![b] =
           [@ EXCEPT !.heartbeatDue = << heartbeatInterval(rev) >>,
                     !.deadlineDue = << heartbeatDeadline(rev) >>,
                     !.heartbeatTimeout = IF rev = BOARD_TS THEN "deadline" ELSE @,
                     !.timeouts = Append(@, "deadline")]]
    /\ onceFirmware' = onceFirmware \cup {b}
    /\ IF linkOpen /\ Len(queries) < MaxQueries
       THEN queries' = Append(queries, 0) /\ UNCHANGED late
       ELSE UNCHANGED queries /\ late' = (late \/ linkOpen)
    /\ Silent
    /\ UNCHANGED << rev, firmware, call, reading, elapsed, board, connectionTimeout, svcListeners,
                    identified, ready, linkEvents, roster, connected, released,
                    disconnected, pinValue >>

\* the heartbeat deadline of board b fires
HeartbeatTimeout(b) ==
    /\ boards[b].deadlineDue = << 0 >>
    /\ DisconnectListener
    /\ LET fired == [boards[b] EXCEPT !.deadlineDue = Off,
                                      !.expiredAt = IF boards[b].age < AgeCap
                                                    THEN << boards[b].age >>
                                                    ELSE @]
       IN  boards' = [boards EXCEPT ![b] =
               resetHeartbeatTimeout(clearInterval(fired, "heartbeat"), rev)]
    /\ Silent
    /\ UNCHANGED << rev, firmware, call, reading, elapsed, board, connectionTimeout, svcListeners,
                    onceFirmware, identified, ready, linkEvents,
                    queries, late, connected, released, pinValue >>

\* the blink interval of board b fires: toggleLED
BlinkTick(b) ==
    /\ boards[b].blinkDue = << 0 >>
    /\ boards' = [boards EXCEPT ![b].blinkDue = << Ticks(BLINK_MS) >>]
    /\ pinValue' = AfterWrites(pinValue,
           setPinValueWrites(<< LED >>, toggleLEDValue(pinValue)))
    /\ Silent
    /\ UNCHANGED << rev, firmware, call, reading, elapsed, board, connectionTimeout, svcListeners,
                    onceFirmware, identified, ready, linkEvents,
                    queries, late, roster, connected, released, disconnected >>

\* the boards the caller of connectToBoard was given
Handed == { connected[i] : i \in DOMAIN connected } \cap DOMAIN boards

\* the boards their caller makes calls on: a caller drops a board once it
\* has torn it down
InUse == Handed \ released

\* the error executeAction throws for a name that is no action
UnavailableError(r) == IF r = BOARD_TS THEN "CommandUnavailable" ELSE "CommandError"

\* a faulty rejection, which reports an update before it throws
rejectActionAfterUpdate ==
    /\ thrown' = UnavailableError(rev)
    /\ emitted' = << "update" >>
    /\ out' = << >>
    /\ UNCHANGED << boards, pinValue >>

\* executeAction's first statement when the name is no action: the throw
rejectAction ==
    /\ thrown' = UnavailableError(rev)
    /\ emitted' = << >>
    /\ out' = << >>
    /\ UNCHANGED << boards, pinValue >>

\* board b's executeAction( action, parameters )
executeAction(b, action, parameters) ==
    /\ b \in InUse
    /\ linkOpen
    /\ IF ~isAvailableAction(action)
       THEN rejectAction
       ELSE LET m == MethodCall(action, MethodArguments(rev, parameters), pinValue)
            IN  IF m[1] = "enableBlinkLed"
                THEN /\ boards' = [boards EXCEPT ![b] =
                                       enableBlinkLed(@, m[2], rev)]
                     /\ thrown' = ""
                     /\ emitted' = << "update" >>
                     /\ out' = << >>
                     /\ UNCHANGED pinValue
                ELSE IF setPinValueMalformed(rev, m[2], m[3])
                THEN /\ thrown' = "CommandMalformed"
                     /\ emitted' = << >>
                     /\ out' = << >>
                     /\ UNCHANGED << boards, pinValue >>
                ELSE IF setPinValueThrows(m[2])
                THEN /\ thrown' = "TypeError"
                     /\ emitted' = << >>
                     /\ out' = << >>
                     /\ UNCHANGED << boards, pinValue >>
                ELSE /\ thrown' = ""
                     /\ out' = setPinValueWrites(m[2], m[3])
                     /\ pinValue' = AfterWrites(pinValue, out')
                     /\ emitted' = << "update", "update" >>
                     /\ UNCHANGED boards
    /\ UNCHANGED << rev, firmware, call, reading, elapsed, board, connectionTimeout, svcListeners,
                    onceFirmware, identified, ready, linkEvents,
                    queries, late, roster, connected, released, disconnected >>

\* clearAllTimers() of board bd, but for the listeners it removes
clearAllTimers(bd) == clearAllTimeouts(clearAllIntervals(bd))

\* board.ts: clearListeners() removes the board's own listeners;
\* part_000: removeAllListeners() removes every listener of firmataBoard
ClearAllTimers(b) ==
    /\ b \in InUse
    /\ IF rev = BOARD_TS
       THEN /\ boards' = [boards EXCEPT ![b] =
                   [clearAllTimers(@) EXCEPT !.pinListeners = {}]]
            /\ onceFirmware' = onceFirmware \ {b}
            /\ UNCHANGED << svcListeners, released >>
       ELSE /\ boards' = WithoutListeners([boards EXCEPT ![b] = clearAllTimers(@)])
            /\ onceFirmware' = {}
            /\ svcListeners' = FALSE
            /\ released' = released \cup {b}
    /\ Silent
    /\ UNCHANGED << rev, firmware, call, reading, elapsed, board, connectionTimeout, identified, ready,
                    linkEvents, queries, late, roster, connected,
                    disconnected, pinValue >>

\* board.ts: disconnect()
Disconnect(b) ==
    /\ rev = BOARD_TS
    /\ b \in InUse
    /\ boards' = WithoutListeners([boards EXCEPT ![b] =
                     [clearAllTimers(@) EXCEPT !.online = FALSE]])
    /\ onceFirmware' = {}
    /\ svcListeners' = FALSE
    /\ released' = released \cup {b}
    /\ Silent
    /\ UNCHANGED << rev, firmware, call, reading, elapsed, board, connectionTimeout, identified, ready,
                    linkEvents, queries, late, roster, connected,
                    disconnected, pinValue >>

\* a timer of the host is due
TimerDue ==
    \/ connectionTimeout = << 0 >>
    \/ \E b \in DOMAIN boards :
           \/ boards[b].heartbeatDue = << 0 >>
           \/ boards[b].deadlineDue = << 0 >>
           \/ boards[b].blinkDue = << 0 >>

Min(a, b) == IF a < b THEN a ELSE b

\* a pending timer half a second later
Later(timer) == IF timer = Off THEN Off ELSE << timer[1] - 1 >>

\* the reply time of a healthy link
ReplyTime == Ticks(HEARTBEAT_TIMEOUT_OLD_MS)

RECURSIVE Older(_)
Older(qs) ==
    IF qs = << >> THEN << >>
    ELSE << Min(Head(qs) + 1, ReplyTime) >> \o Older(Tail(qs))

\* half a second passes
Tick ==
    /\ ~TimerDue
    /\ connectionTimeout' = Later(connectionTimeout)
    /\ boards' = [i \in DOMAIN boards |->
           [boards[i] EXCEPT !.heartbeatDue = Later(@),
                             !.deadlineDue = Later(@),
                             !.blinkDue = Later(@),
                             !.age = Min(@ + 1, AgeCap)]]
    /\ elapsed' = IF connected = << >> THEN elapsed + 1 ELSE elapsed
    /\ queries' = Older(queries)
    /\ late' = (late \/ \E i \in DOMAIN queries : queries[i] + 1 >= ReplyTime)
    /\ Silent
    /\ UNCHANGED << rev, firmware, call, reading, board, svcListeners, onceFirmware, identified, ready,
                    linkEvents, roster, connected, released, disconnected,
                    pinValue >>

Next ==
    \/ IdentificationReply
    \/ HeartbeatReply
    \/ Ready
    \/ ConnectionTimeout
    \/ \E e \in {"disconnect", "close"} : LinkEvent(e)
    \/ \E b \in DOMAIN boards : HeartbeatTick(b)
    \/ \E b \in DOMAIN boards : HeartbeatTimeout(b)
    \/ \E b \in DOMAIN boards : BlinkTick(b)
    \/ \E b \in DOMAIN boards, action \in Actions \cup UnknownActions :
           \E parameters \in ParameterChoices(action) :
               executeAction(b, action, parameters)
    \/ \E b \in DOMAIN boards : ClearAllTimers(b)
    \/ \E b \in DOMAIN boards : Disconnect(b)
    \/ Tick

Spec == Init /\ [][Next]_vars

\* the host runs every timer callback that is due, and time passes
Fairness ==
    /\ WF_vars(Tick)
    /\ WF_vars(ConnectionTimeout)
    /\ \A b \in 1 .. MaxBoards :
           /\ WF_vars(b \in DOMAIN boards /\ HeartbeatTick(b))
           /\ WF_vars(b \in DOMAIN boards /\ HeartbeatTimeout(b))
           /\ WF_vars(b \in DOMAIN boards /\ BlinkTick(b))

SpecLive == Init /\ [][Next]_vars /\ Fairness

(***************************************************************************)
(* Pin readings: the device reports the value of a pin and firmata calls   *)
(* the callbacks the Boards registered with analogRead / digitalRead.      *)
(***************************************************************************)
\* the largest value the device reports of a pin
MaxReading == 1

Readings == 0 .. MaxReading

\* the number of 'update' events a step emits, as the events
Updates(n) == [i \in 1 .. n |-> "update"]

compareAnalogReadout(bd, pinIndex, value) ==
    IF bd.previousAnalogValue[pinIndex] # << value >>
    THEN [bd EXCEPT !.previousAnalogValue[pinIndex] = << value >>]
    ELSE bd

\* the callback a Board gave analogRead: board.ts gives emitUpdate itself,
\* part_000 a function that calls compareAnalogReadout
AnalogCallbackEmits(bd, pin, value) ==
    IF rev = BOARD_TS THEN TRUE
    ELSE compareAnalogReadout(bd, pin, value) # bd

\* the device reports value of analog pin: every Board that listens to the
\* pin has its callback called
AnalogReading(pin, value) ==
    /\ linkOpen
    /\ \E b \in DOMAIN boards : pin \in boards[b].pinListeners
    /\ reading' = [reading EXCEPT ![pin] = << value >>]
    /\ boards' = [b \in DOMAIN boards |->
           IF pin \in boards[b].pinListeners /\ rev # BOARD_TS
           THEN compareAnalogReadout(boards[b], pin, value)
           ELSE boards[b]]
    /\ emitted' = Updates(Cardinality({ b \in DOMAIN boards :
                      /\ pin \in boards[b].pinListeners
                      /\ AnalogCallbackEmits(boards[b], pin, value) }))
    /\ thrown' = ""
    /\ out' = << >>
    /\ UNCHANGED << rev, firmware, call, elapsed, board, connectionTimeout, svcListeners,
                    onceFirmware, identified, ready, linkEvents, queries,
                    late, roster, connected, released, disconnected,
                    pinValue >>

\* the device reports a value of a digital pin: the callback of every Board
\* that listens to the pin is emitUpdate
DigitalReading(pin) ==
    /\ linkOpen
    /\ \E b \in DOMAIN boards : pin \in boards[b].pinListeners
    /\ emitted' = Updates(Cardinality({ b \in DOMAIN boards :
                      pin \in boards[b].pinListeners }))
    /\ thrown' = ""
    /\ out' = << >>
    /\ UNCHANGED << rev, firmware, call, reading, elapsed, boards, board, connectionTimeout,
                    svcListeners, onceFirmware, identified, ready,
                    linkEvents, queries, late, roster, connected, released,
                    disconnected, pinValue >>

\* a link that stays open, with a device that reports its pins
NextReadings ==
    \/ IdentificationReply
    \/ HeartbeatReply
    \/ Ready
    \/ \E b \in DOMAIN boards : HeartbeatTick(b)
    \/ Tick
    \/ \E pin \in AnalogPins, value \in Readings : AnalogReading(pin, value)
    \/ \E pin \in DigitalPins : DigitalReading(pin)

SpecReadings == Init /\ [][NextReadings]_vars

(***************************************************************************)
(* Variant resolution: links to devices that run sketches of any name      *)
(***************************************************************************)
\* the unique parts of the sketch names
MaxUnique == 2

UniqueParts ==
    { << >> } \cup { << "_", "0", d >> : d \in { c \in Digits : DigitValue(c) \in 1 .. MaxUnique } }

FirmwareNames ==
    { v \o u \o x : v \in { MajorTomName, LedControllerName, StandardFirmataName },
                    u \in UniqueParts, x \in { << >>, DotIno } }

InitVariant == InitLink /\ firmware \in FirmwareNames

NextVariant ==
    \/ IdentificationReply
    \/ Ready
    \/ ConnectionTimeout
    \/ Tick

SpecVariant == InitVariant /\ [][NextVariant]_vars

(***************************************************************************)
(* LedController: a Board whose actions write commands to the LED          *)
(* controller shield through the serial passthrough                        *)
(***************************************************************************)
PAYLOAD_HEADER == "["

PAYLOAD_FOOTER == "]"

LED_COMMANDS ==
    [ SETCOLOR |-> "C", PULSECOLOR |-> "P", SETBRIGHTNESS |-> "B",
      RAINBOW |-> "R", RETRO |-> "8", KITT |-> "K" ]

\* a faulty buildPayload, which leaves the footer out
buildPayloadNoFooter(command, parameters) ==
    << PAYLOAD_HEADER, command >> \o parameters

\* buildPayload( command, ...parameters )
buildPayload(command, parameters) ==
    << PAYLOAD_HEADER, command >> \o parameters \o << PAYLOAD_FOOTER >>

\* Board.is8BitNumber
is8BitNumber(n) == n # NaN /\ n[1] \in 0 .. 255

\* parametersAreValid( arguments )
parametersAreValid(args) == \A i \in DOMAIN args : is8BitNumber(args[i])

\* what a call leaves behind: the error thrown and the calls made of
\* firmataBoard
Thrown(error) == [ thrown |-> error, out |-> << >> ]

\* Board.serialWriteBytes( SW_SERIAL0, payload )
serialWriteBytes(payload) ==
    [ thrown |-> "", out |-> << << "serialWriteBytes", "SW_SERIAL0", payload >> >> ]

\* the numbers args, as the parameters of a payload
Numbers(args) == [i \in DOMAIN args |-> args[i][1]]

pulseColor(hue, saturation) ==
    IF ~parametersAreValid(<< hue, saturation >>) THEN Thrown("Error")
    ELSE serialWriteBytes(buildPayload(LED_COMMANDS.PULSECOLOR,
                                       Numbers(<< hue, saturation >>)))

setColor(hue, saturation, value) ==
    IF ~parametersAreValid(<< hue, saturation, value >>) THEN Thrown("Error")
    ELSE serialWriteBytes(buildPayload(LED_COMMANDS.SETCOLOR,
                                       Numbers(<< hue, saturation, value >>)))

rainbow == serialWriteBytes(buildPayload(LED_COMMANDS.RAINBOW, << >>))

kitt(hue, saturation, value) ==
    IF ~parametersAreValid(<< hue, saturation, value >>) THEN Thrown("Error")
    ELSE serialWriteBytes(buildPayload(LED_COMMANDS.KITT,
                                       Numbers(<< hue, saturation, value >>)))

\* this.availableActions of a LedController
LedActions == {"RAINBOW", "KITT", "PULSECOLOR", "SETCOLOR"}

requiresParams(action) == action # "RAINBOW"

\* availableActions[ action ].method( ...args )
method(action, args) ==
    CASE action = "RAINBOW" -> rainbow
      [] action = "KITT" ->
             kitt(parseInt(Argument(args, 1)), parseInt(Argument(args, 2)),
                  parseInt(Argument(args, 3)))
      [] action = "PULSECOLOR" ->
             pulseColor(parseInt(Argument(args, 1)), parseInt(Argument(args, 2)))
      [] action = "SETCOLOR" ->
             setColor(parseInt(Argument(args, 1)), parseInt(Argument(args, 2)),
                      parseInt(Argument(args, 3)))

\* the most parameters a caller passes
MaxParameters == 3

\* the parameter strings the callers pass
LedParameterStrings ==
    { << "0" >>, << "2", "5", "5" >>, << "2", "5", "6" >>, << "-", "1" >>,
      << "1", "x" >>, << "x" >> }

LedParameters ==
    UNION { [1 .. n -> LedParameterStrings] : n \in 0 .. MaxParameters }

\* executeAction( action, parameters ) of a LedController
LedExecuteAction(action, parameters) ==
    /\ LET done == IF requiresParams(action) /\ parameters = << >>
                   THEN Thrown("CommandMalformed")
                   ELSE method(action, parameters)
       IN  /\ thrown' = done.thrown
           /\ out' = done.out
           /\ emitted' = IF done.thrown = "" THEN << "update" >> ELSE << >>
    /\ call' = << action, parameters >>
    /\ UNCHANGED << rev, firmware, reading, elapsed, boards, board,
                    connectionTimeout, svcListeners, onceFirmware, identified,
                    ready, linkEvents, queries, late, roster, connected,
                    released, disconnected, pinValue >>

\* a LedController and its callers
InitLed ==
    InitLink /\ rev = BOARD_TS /\ firmware = LedControllerName \o DotIno

NextLed ==
    \E action \in LedActions, parameters \in LedParameters :
        LedExecuteAction(action, parameters)

SpecLed == InitLed /\ [][NextLed]_vars

(***************************************************************************)
(* Properties                                                              *)
(***************************************************************************)
\* board b has a timer pending
LiveTimers(b) ==
    \/ boards[b].heartbeatDue # Off
    \/ boards[b].deadlineDue # Off
    \/ boards[b].blinkDue # Off

\* board b has a listener on firmataBoard
LiveListeners(b) == boards[b].pinListeners # {} \/ b \in onceFirmware

\* connectToBoard has called boardConnectedCallback( false )
TimedOut == connected # << >> /\ connected[1] = 0

\* C1: leak invariant.  A board that was handed out at 'ready' and then
\* torn down (disconnect() in board.ts, clearAllTimers() in part_000) has
\* no timer pending (heartbeat interval, heartbeat deadline, blink
\* interval) and no listener left on the link, whatever actions, heartbeat
\* ticks, replies and expiries came before.
C1_LeakInvariant ==
    \A b \in released : ~LiveTimers(b) /\ ~LiveListeners(b)

\* C2: one session per identity.  At most one Board of the link has live
\* timers at any moment, whatever number of 'queryfirmware' events
\* connectToBoard's listener has received.
C2_OneSession ==
    Cardinality({ b \in DOMAIN boards : LiveTimers(b) }) <= 1

\* C3: a Board is in the roster (passed to addBoard and not yet to
\* removeBoard) if and only if its online flag is true (board.ts, the
\* revision that has the flag).
C3_RosterIffOnline ==
    rev = BOARD_TS =>
        \A b \in DOMAIN boards : (b \in roster) <=> boards[b].online

C5_HeartbeatFailure ==
    \A b \in Handed :
        boards[b].expiredAt # << >> =>
            boards[b].expiredAt = << Ticks(3000) + Ticks(2000) >>

\* C6: disconnect cleanup.  When the link of a READY session dies, the
\* roster is left without the session and boardDisconnectedCallback has
\* been called once, not more, whichever of 'disconnect' (the one a
\* heartbeat expiry emits included) and 'close' occur, in whatever order.
C6_DisconnectCleanup ==
    Handed # {} =>
        /\ disconnected <= 1
        /\ ~linkOpen => (roster = {} /\ disconnected = 1)

\* C7: identification timeout.  Once 10 s have passed without 'ready',
\* boardConnectedCallback has been called with false, and from then on no
\* Board of the link is ever in the roster.
C7_IdentificationTimeout ==
    /\ (elapsed = Ticks(CONNECTION_TIMEOUT_MS) /\ connectionTimeout # << 0 >>)
           => TimedOut
    /\ TimedOut => roster = {}

\* C7, its case: the timeout has fired and 'ready' came after it
C7_Witness ==
    TimedOut /\ ready /\ elapsed = Ticks(CONNECTION_TIMEOUT_MS)

\* C8: the step of the identification timeout leaves no listener on the
\* link and the link closed.
C8_TimeoutReleasesLink ==
    [][ ConnectionTimeout =>
            /\ ~svcListeners'
            /\ \A b \in DOMAIN boards : ~LiveListeners(b)'
            /\ ~linkOpen' ]_vars

\* parameters that are valid for an action of this device: a digital pin
\* and a level, an analog pin and a value
ValidParameters(action) ==
    IF action = "SETPINVALUE"
    THEN { << S("2"), S("1") >>, << S("1"), S("0") >> }
    ELSE { << >> }

\* the handler of the action has run with these parameters
HandlerRan(b, action, parameters) ==
    LET m == MethodCall(action, parameters, pinValue)
    IN  IF m[1] = "enableBlinkLed"
        THEN boards'[b] = enableBlinkLed(boards[b], m[2], rev)
        ELSE out' = setPinValueWrites(m[2], m[3])

\* C9: for every action name of getAvailableActions, executeAction with
\* valid parameters throws nothing and runs the action's handler with the
\* parameters given; for every other name it throws the error of an
\* unavailable action.
C9_ExecuteAction ==
    [][ \A b \in DOMAIN boards :
          /\ \A action \in getAvailableActions :
               \A parameters \in ValidParameters(action) :
                   executeAction(b, action, parameters)
                       => (thrown' = "" /\ HandlerRan(b, action, parameters))
          /\ \A action \in UnknownActions :
               executeAction(b, action, << >>)
                   => thrown' \in {"CommandUnavailable", "CommandError"} ]_vars

\* C10: executeAction with a name that is no action leaves the session as
\* it was: online flag, currentProgram, timer lists and pending timers
\* are unchanged, nothing is written to the link and no update is emitted.
C10_UnknownActionNoEffect ==
    [][ \A b \in DOMAIN boards, action \in UnknownActions :
            executeAction(b, action, << >>)
                => /\ boards' = boards
                   /\ pinValue' = pinValue
                   /\ out' = << >>
                   /\ emitted' = << >> ]_vars

\* C10, its case: executeAction has just thrown for an unknown name on a
\* board that is blinking
C10_Witness ==
    /\ thrown \in {"CommandUnavailable", "CommandError"}
    /\ \E b \in InUse : boards[b].blinkDue # Off

\* SETPINVALUE parameters with the pin or the value missing or not a number
MalformedParameters ==
    { << >>, << S("2") >>, << S("x"), S("1") >>, << S("2"), S("x") >> }

\* C11: executeAction( "SETPINVALUE", parameters ) throws CommandMalformed
\* whenever the pin or the value is missing or does not parse as an
\* integer, and writes to no pin.
C11_SetPinValueMalformed ==
    [][ \A b \in DOMAIN boards, parameters \in MalformedParameters :
            executeAction(b, "SETPINVALUE", parameters)
                => (thrown' = "CommandMalformed" /\ out' = << >>) ]_vars

\* C15: executeAction( "SETPINVALUE", [ pin, value ] ) on a digital pin
\* issues digitalWrite( pin, value ) when value is 0 or 1 and no write at
\* all when value is another integer; on an analog pin it issues
\* analogWrite( pin, value ).
C15_SetPinValueWrites ==
    [][ \A b \in DOMAIN boards :
          /\ \A level \in {"0", "1"} :
               executeAction(b, "SETPINVALUE", << S("2"), S(level) >>)
                   => out' = << << "digitalWrite", << 2 >>,
                                   << DigitValue(level) >> >> >>
          /\ executeAction(b, "SETPINVALUE", << S("2"), S("2") >>)
                 => out' = << >>
          /\ executeAction(b, "SETPINVALUE", << S("1"), S("0") >>)
                 => out' = << << "analogWrite", << 1 >>, << 0 >> >> >> ]_vars

\* the number of handles h in a timer list
RECURSIVE Count(_, _)
Count(list, h) ==
    IF list = << >> THEN 0
    ELSE (IF Head(list) = h THEN 1 ELSE 0) + Count(Tail(list), h)

\* C17: BLINKON while the LED is already blinking changes nothing of the
\* session (timer lists, blink handle, currentProgram), and no session
\* ever holds more than one blink interval.
C17_BlinkOnIdempotent ==
    [][ /\ \A b \in DOMAIN boards :
             (executeAction(b, "BLINKON", << >>) /\ Truthy(boards[b].blinkInterval))
                 => boards'[b] = boards[b]
        /\ \A b \in DOMAIN boards' : Count(boards'[b].intervals, "blink") <= 1
      ]_vars

\* BLINKON was executed while the blink interval was about to fire
C17_Witness ==
    \E b \in InUse :
        /\ emitted = << "update" >> /\ thrown = ""
        /\ boards[b].blinkDue = << 0 >>
        /\ boards[b].blinkInterval = "blink"

\* C18: BLINKOFF on a blinking session leaves currentProgram idle, the
\* blink interval cancelled and its handle out of the interval list, and
\* a BLINKON after it starts a new blink interval.
C18_BlinkOff ==
    [][ \A b \in DOMAIN boards :
          (executeAction(b, "BLINKOFF", << >>) /\ boards[b].blinkDue # Off)
              => /\ boards'[b].currentProgram = IDLE(rev)
                 /\ boards'[b].blinkDue = Off
                 /\ Count(boards'[b].intervals, "blink") = 0
                 /\ enableBlinkLed(boards'[b], TRUE, rev).blinkDue
                        = << Ticks(BLINK_MS) >>
                 /\ Count(enableBlinkLed(boards'[b], TRUE, rev).intervals,
                          "blink") = 1 ]_vars

\* BLINKOFF was executed on a session whose interval list held the
\* heartbeat and the blink interval
C18_Witness ==
    \E b \in InUse :
        /\ emitted = << "update" >> /\ thrown = ""
        /\ boards[b].blinkInterval = "null"
        /\ boards[b].blinkDue = Off
        /\ boards[b].intervals = << "heartbeat" >>

\* C19: cancelling a handle that is null or no longer in its list
\* (BLINKOFF when no blink is running) removes no other handle from the
\* timer lists and cancels no other timer.
C19_CancelIdempotent ==
    [][ \A b \in DOMAIN boards :
          (executeAction(b, "BLINKOFF", << >>) /\ ~Truthy(boards[b].blinkInterval))
              => /\ boards'[b].intervals = boards[b].intervals
                 /\ boards'[b].timeouts = boards[b].timeouts
                 /\ boards'[b].heartbeatDue = boards[b].heartbeatDue
                 /\ boards'[b].deadlineDue = boards[b].deadlineDue ]_vars

\* C20: every pending timer of a session is an element of the session's
\* intervals or timeouts list.
C20_TimersTracked ==
    \A b \in DOMAIN boards :
        /\ boards[b].heartbeatDue # Off => Count(boards[b].intervals, "heartbeat") > 0
        /\ boards[b].blinkDue # Off => Count(boards[b].intervals, "blink") > 0
        /\ boards[b].deadlineDue # Off => Count(boards[b].timeouts, "deadline") > 0

\* C14: a reading of an analog pin that equals the pin's previous reading
\* emits no update and one that differs from it emits exactly one update;
\* a reading of a digital pin always emits an update.
C14_AnalogChangeDetection ==
    [][ /\ \A pin \in AnalogPins, value \in Readings :
             AnalogReading(pin, value)
                 => emitted' = IF reading[pin] = << value >> THEN << >>
                               ELSE << "update" >>
        /\ \A pin \in DigitalPins :
             DigitalReading(pin) => emitted' = << "update" >> ]_vars

\* name without a trailing .ino
Stem(name) ==
    IF Len(name) >= Len(DotIno)
       /\ SubSeq(name, Len(name) - Len(DotIno) + 1, Len(name)) = DotIno
    THEN SubSeq(name, 1, Len(name) - Len(DotIno))
    ELSE name

\* the part of a sketch name before the unique part
VariantPart(name) ==
    IF Find(Stem(name), << "_" >>) = 0 THEN Stem(name)
    ELSE SubSeq(Stem(name), 1, Find(Stem(name), << "_" >>) - 1)

\* name has the form <variant>_<unique>.ino
Recommended(name) == Find(name, << "_" >>) # 0 /\ Stem(name) # name

\* C16: the firmware name without its .ino suffix selects the variant:
\* MajorTom gives MajorTom, LedController gives LedController, any other
\* name gives the generic Board; and names <variant>_<unique>.ino that
\* differ in the unique part only give the same variant.
C16_VariantResolution ==
    /\ \A b \in DOMAIN boards :
          /\ Stem(firmware) = MajorTomName => boards[b].type = "MajorTom"
          /\ Stem(firmware) = LedControllerName
                 => boards[b].type = "LedController"
          /\ VariantPart(firmware) \notin { MajorTomName, LedControllerName }
                 => boards[b].type = "Board"
    /\ \A n1, n2 \in { n \in FirmwareNames : Recommended(n) } :
          VariantPart(n1) = VariantPart(n2) => BoardClass(n1) = BoardClass(n2)

\* the number of parameters of a LedController action
Arity(action) ==
    CASE action = "RAINBOW" -> 0 [] action = "PULSECOLOR" -> 2
      [] action \in {"KITT", "SETCOLOR"} -> 3

\* s is the decimal notation of an integer in [0,255]
IsByte(s) ==
    /\ s # << >>
    /\ \A i \in DOMAIN s : s[i] \in Digits
    /\ Decimal(s) \in 0 .. 255

\* the last call was of action, with as many parameters as it has
Called(actions) ==
    /\ call # << >>
    /\ call[1] \in actions
    /\ Len(call[2]) = Arity(call[1])

\* C12: KITT, PULSECOLOR and SETCOLOR with a parameter that is not an
\* integer in [0,255] fail with the malformed-action error (the handlers
\* throw it as an Error that names the 8 bit range) and write nothing to
\* the serial port.
C12_LedParametersMalformed ==
    (/\ Called({"KITT", "PULSECOLOR", "SETCOLOR"})
     /\ \E i \in DOMAIN call[2] : ~IsByte(call[2][i]))
        => (thrown \in {"CommandMalformed", "Error"} /\ out = << >>)

\* the command letter of a LedController action
Letter(action) ==
    CASE action = "SETCOLOR" -> "C" [] action = "PULSECOLOR" -> "P"
      [] action = "RAINBOW" -> "R" [] action = "KITT" -> "K"

\* C13: a LedController action with parameters in [0,255] writes exactly
\* '[', the command letter, the parameters in call order, ']' to the
\* serial port.
C13_LedPayload ==
    (/\ Called(LedActions)
     /\ \A i \in DOMAIN call[2] : IsByte(call[2][i]))
        => out = << << "serialWriteBytes", "SW_SERIAL0",
                       << "[", Letter(call[1]) >>
                           \o [i \in DOMAIN call[2] |-> Decimal(call[2][i])]
                           \o << "]" >> >> >>

\* SETCOLOR( "255", "0", "255" ) was executed
C13_Witness ==
    /\ call = << "SETCOLOR", << << "2", "5", "5" >>, << "0" >>, << "2", "5", "5" >> >> >>
    /\ thrown = "" /\ emitted = << "update" >>
    /\ out = << << "serialWriteBytes", "SW_SERIAL0",
                   << "[", "C", 255, 0, 255, "]" >> >> >>

\* C21: every handle in a session's intervals or timeouts list is the
\* handle of a timer that is still pending: none that has fired or been
\* cleared remains in a list.
C21_ListedTimersPending ==
    \A b \in DOMAIN boards :
        /\ Count(boards[b].intervals, "heartbeat") > 0 => boards[b].heartbeatDue # Off
        /\ Count(boards[b].intervals, "blink") > 0 => boards[b].blinkDue # Off
        /\ Count(boards[b].timeouts, "deadline") > 0 => boards[b].deadlineDue # Off

\* the heartbeat deadline of a Board has fired and its callback has
\* cleared the heartbeat interval and the deadline
C21_Witness ==
    \E b \in DOMAIN boards :
        /\ boards[b].expiredAt # << >>
        /\ boards[b].deadlineDue = Off /\ boards[b].heartbeatDue = Off
        /\ Count(boards[b].timeouts, "deadline") = 0
        /\ Count(boards[b].intervals, "heartbeat") = 0

\* C22: after the identification timeout no timer of a Board constructed
\* for the link is pending.
C22_TimeoutLeavesNoTimer ==
    TimedOut => \A b \in DOMAIN boards : ~LiveTimers(b)

\* C23: when the heartbeat deadline of a session in the roster expires,
\* 'disconnect' is emitted, the session's heartbeat is stopped (no further
\* query), none of its timers is left pending (a running blink interval
\* included), it is marked offline and it is out of the roster.
C23_HeartbeatExpiry ==
    [][ \A b \in DOMAIN boards :
          (HeartbeatTimeout(b) /\ b \in roster /\ svcListeners)
              => /\ disconnected' = disconnected + 1
                 /\ boards'[b].heartbeatDue = Off
                 /\ boards'[b].deadlineDue = Off
                 /\ boards'[b].blinkDue = Off
                 /\ (rev = BOARD_TS => ~boards'[b].online)
                 /\ b \notin roster' ]_vars

\* C24: disconnect() on a session that is in the roster leaves none of
\* its timers pending and none of its listeners on the link, marks it
\* offline and leaves it out of the roster.
C24_ExplicitDisconnect ==
    [][ \A b \in DOMAIN boards :
          (Disconnect(b) /\ b \in roster)
              => /\ ~LiveTimers(b)'
                 /\ ~LiveListeners(b)'
                 /\ ~boards'[b].online
                 /\ b \notin roster' ]_vars

\* C25: a session that is in the roster (added on 'ready') and has not
\* been torn down has a listener on every digital pin and on every analog
\* pin of the device.
C25_ReadyPinsReported ==
    \A b \in roster \ released :
        boards[b].pinListeners = AnalogPins \cup DigitalPins

\* C26: before 'ready' no heartbeat interval is armed and no heartbeat
\* deadline is pending, and no heartbeat deadline fires (emitting
\* 'disconnect') before 'ready'.
C26_HeartbeatOnlyWhenReady ==
    [][ /\ ~ready' => \A b \in DOMAIN boards' :
                          /\ boards'[b].heartbeatDue = Off
                          /\ boards'[b].deadlineDue = Off
        /\ \A b \in DOMAIN boards : HeartbeatTimeout(b) => ready ]_vars

\* C27: currentProgram (currentJob) has the idle value in every state in
\* which the session's blink interval is not pending.
C27_IdleWhenNotBlinking ==
    \A b \in DOMAIN boards :
        boards[b].blinkDue = Off => boards[b].currentProgram = IDLE(rev)

\* C28: every executeAction call that does not throw emits exactly one
\* update event.
C28_OneUpdatePerAction ==
    [][ \A b \in DOMAIN boards, action \in Actions :
          \A parameters \in ParameterChoices(action) :
              (executeAction(b, action, parameters) /\ thrown' = "")
                  => emitted' = << "update" >> ]_vars

\* C29: boardConnectedCallback is called exactly once for a connection
\* attempt, in the end: with the Board after 'ready' or with false after
\* the 10 s timeout, never both; once 'ready' has called it the timeout
\* does not fire, and after the timeout a late 'ready' adds nothing to the
\* roster.
C29_ConnectCallbackOnce ==
    /\ [](Len(connected) <= 1)
    /\ <>(Len(connected) = 1)
    /\ []((connected # << >> /\ connected[1] # 0) => connectionTimeout = Off)
    /\ [](TimedOut => roster = {})

\* 'ready' has called the callback with the Board, which is in the roster,
\* and the 10 s timer is cleared
C29_Witness ==
    /\ connected = << 1 >>
    /\ connectionTimeout = Off
    /\ roster = {1}
    /\ ~linkOpen

\* C30: whenever connectToBoard's listener of 'disconnect' or 'close' runs
\* after 'ready' has added a session, the session it passes to removeBoard
\* is the one that was passed to addBoard, whatever number of
\* 'queryfirmware' events came in between, and the roster is empty
\* afterwards.
C30_RemovesAddedSession ==
    [][ (disconnected' = disconnected + 1 /\ connected # << >>)
            => /\ board = connected[1]
               /\ roster' = {} ]_vars

\* C31: joined precedes left.  connectToBoard's listener of 'disconnect'
\* and of 'close' has called removeBoard and boardDisconnectedCallback only
\* if 'ready' has added a session of the link to the roster before.
C31_JoinedPrecedesLeft ==
    disconnected > 0 => (connected # << >> /\ connected[1] # 0)

\* C32: at most one heartbeat deadline is outstanding per session.  When
\* the heartbeat interval of a Board fires and arms a deadline, the
\* deadline of the tick before is cancelled or has fired; the timeouts
\* list never holds more than one handle; and in board.ts, which has the
\* field, heartbeatTimeout refers to the handle the list holds.
C32_OneDeadline ==
    /\ [][ \A b \in DOMAIN boards :
             HeartbeatTick(b) => boards[b].deadlineDue = Off ]_vars
    /\ [](\A b \in DOMAIN boards :
             /\ Len(boards[b].timeouts) <= 1
             /\ (rev = BOARD_TS /\ boards[b].timeouts # << >>)
                    => boards[b].heartbeatTimeout = boards[b].timeouts[1])

\* the first Board of the link has had a deadline cancelled by a reply, its
\* heartbeat has fired again, and the deadline of that tick is pending
C32_Witness ==
    /\ rev = BOARD_TS
    /\ 1 \in DOMAIN boards
    /\ boards[1].age = AgeCap
    /\ boards[1].heartbeatDue # Off
    /\ boards[1].deadlineDue # Off
    /\ boards[1].timeouts = << "deadline" >>
    /\ boards[1].heartbeatTimeout = "deadline"

\* C33: the blinkInterval field of a Board is set (neither undefined nor
\* null) exactly when its blink interval is pending and its handle is in
\* the intervals list.
C33_BlinkIntervalField ==
    \A b \in DOMAIN boards :
        Truthy(boards[b].blinkInterval)
            <=> (boards[b].blinkDue # Off /\ Count(boards[b].intervals, "blink") > 0)

====
